---- MODULE Spec2Model ----
(***************************************************************************)
(* A model of the Gemini Nano chat client:                                 *)
(*   - LocalAICore (src/ai-core.js): capability probing, the session and   *)
(*     the request lifecycle (streaming, fallback, cancellation, retry);   *)
(*   - GeminiNanoApp (src/app.js): the chat controller, its conversation   *)
(*     store and the message list it renders.                              *)
(*                                                                         *)
(* Granularity.  JavaScript runs each handler to its next await on a host  *)
(* operation; a step of the model is one such run.  The host operations    *)
(* are the capability query, LanguageModel.create, session.prompt and the  *)
(* delivery of one chunk of a stream.  The continuation of an await on one *)
(* of the core's own async functions (initialize awaiting createSession,   *)
(* processText awaiting its own retry) runs in the step that settles that  *)
(* function.                                                               *)
(*                                                                         *)
(* Texts are sequences of letters, so that concatenation is \o and the     *)
(* empty string is << >>.                                                  *)
(***************************************************************************)
EXTENDS Integers, Sequences, FiniteSets, TLC

\* ------------------------------------------------------------------ bounds
\* Number of processText calls made on the core.
MaxRequests == 2
\* Number of createSession calls made on the core by its user.
MaxSetups == 1
\* Number of initialize calls made on the core.
MaxInits == 4
\* Number of calls on the core that are in flight at once.
MaxInFlight == 3
\* Number of chunks the host delivers, over all streams.
MaxChunks == 2
\* Depth of the retry recursion of processText that the host is allowed to provoke.
MaxDepth == 1
\* Retries of one request on a host whose sessions all fail with a
\* destroyed/quota error.
MaxRetries == 2

\* Fetch events the service worker handles in a run.
MaxEvents == 3

\* -------------------------------------------------------- program constants
MinChromeVersion == 127

Calls == 1..MaxInFlight
ChromeVersions == {120, 127, 130}
\* window.ai.languageModel / LanguageModel absent ("none"), or present with
\* capabilities(), with availability() only, or with neither query.
AIShapes == {"none", "capabilities", "availability", "neither"}
\* Values the capability query can return.
RawStatuses == {"readily", "available", "after-download", "downloading",
                "downloadable", "no"}
\* What a stream can deliver as its i-th chunk: the empty string << >> or one
\* letter.  The core reads of a chunk only whether it is empty, so one letter per
\* position stands for every text.
Letters == <<"a", "b", "c", "d", "e">>
ChunksAt(i) == {<< >>, <<Letters[i]>>}
\* Texts a blocking prompt can return.
BlockTexts == {<<"x">>}
\* Texts a caller passes to processText.
Texts == {<<"q">>}
\* Errors a prompt or a stream can raise: the cancellation error, an error whose
\* message contains 'destroyed' or 'quota', and any other error.
HostErrors == {"AbortError", "expired", "other"}

StoppedMsg == <<"Parado pelo usuario">>
ErrNoSession == "Sessao da IA nao disponivel"
ErrBusy == "Ja processando outra requisicao"

VARIABLES
    \* LocalAICore fields
    session,          \* 0 is null, otherwise the id of the host session held
    isProcessing,
    isInitialized,
    abortController,  \* 0 is null, otherwise the AbortController held, named by
                      \* the call whose current attempt created it
    \* the host
    chromeVersion,
    aiShape,
    hasStreaming,     \* sessions have promptStreaming
    hasDestroy,       \* sessions have destroy
    live,             \* host sessions created and not destroyed
    nSessions,        \* host sessions created so far
    nChunks,          \* chunks delivered so far
    \* the calls on the core that have not returned to their caller, each with
    \* its position and what it observed; a settled call (pc "done") is taken by
    \* its caller in the next step, which frees its slot
    call,
    nRequests,        \* processText calls made so far
    nSetups,          \* createSession calls made so far by the core's user
    nInits,           \* initialize calls made so far
    stopReturned,     \* what stopProcessing has just returned to its caller
                      \* ("true" or "false"), "none" once the caller has taken it
    \* GeminiNanoApp: its fields, the message list it renders and the sidebar
    app,
    \* the service worker: its lifecycle phase, the cache buckets of the
    \* origin, the fetch event being handled and the cache writes it left behind
    sw

coreVars == <<session, isProcessing, isInitialized, abortController>>
hostConf == <<chromeVersion, aiShape, hasStreaming, hasDestroy>>
hostVars == <<hostConf, live, nSessions, nChunks>>
counters == <<nRequests, nSetups, nInits>>
callVars == <<call, counters>>
pageVars == <<coreVars, hostVars, callVars, stopReturned, app>>
vars == <<pageVars, sw>>

\* ------------------------------------------------------------ pure helpers
RECURSIVE Concat(_)
Concat(ss) == IF ss = << >> THEN << >> ELSE Head(ss) \o Concat(Tail(ss))

NoAvail == [available |-> FALSE, status |-> "", error |-> "", raw |-> ""]
NoOutcome == [settled |-> "no", success |-> FALSE, aborted |-> FALSE,
              status |-> "", result |-> << >>, error |-> ""]

Note(k, t, m) == [k |-> k, t |-> t, meta |-> m]

EmptyCall ==
    [kind |-> "none", pc |-> "idle", text |-> << >>, meta |-> 0,
     depth |-> 0,          \* how many times processText has called itself
     sess |-> 0,           \* the session the stream or prompt was opened on
     signalled |-> FALSE,  \* the signal of the attempt's AbortController is raised
     result |-> << >>,     \* the local variable result of the attempt
     delivered |-> << >>,  \* the chunks the host delivered to the attempt
     notes |-> << >>,      \* the callbacks the attempt has invoked, in order
     out |-> NoOutcome,    \* what the call resolved with or was rejected with
     \* what the call observed (history, read by the properties only)
     earlier |-> 0,        \* callbacks invoked by the attempts before this one
     heldLive |-> FALSE,   \* processText was called while a live session was held
     overlap |-> FALSE, fast |-> FALSE, avail |-> NoAvail, queried |-> 0,
     answer |-> "",        \* what the capability query returned
     attempts |-> 0,       \* calls of LanguageModel.create made for an initialize
     created |-> 0, destroyed |-> 0, setInit |-> FALSE, recreated |-> 0,
     reruns |-> 0, fellBack |-> FALSE, streamErrs |-> 0, prompts |-> 0,
     blockText |-> << >>, abortedIn |-> "",
     hostAbort |-> ""]     \* where the host raised the cancellation error

InFlight(c) == call[c].pc \notin {"idle", "done"}
\* The calls once the settled ones have returned to their callers.
Swept == [c \in Calls |-> IF call[c].pc = "done" THEN EmptyCall ELSE call[c]]
\* The slot a new call takes.
IsFree(c) == Swept[c].kind = "none" /\ \A d \in Calls : d < c => Swept[d].kind # "none"

\* ------------------------------------------------------ checkAvailability
\* The version test with its comparison turned round; C8_OldChromeUnsupported
\* tells it from VersionTooOld.
VersionNewer(v) == v > MinChromeVersion

VersionTooOld(v) == v < MinChromeVersion

\* The mapping with 'downloadable' merged into the 'downloading' branch;
\* C6_DownloadNotReady tells it from MapAvailability.
MapAvailabilityMerged(raw) ==
    IF raw \in {"readily", "available"}
    THEN [available |-> TRUE, status |-> "ready", error |-> "", raw |-> ""]
    ELSE IF raw \in {"after-download", "downloading", "downloadable"}
    THEN [available |-> FALSE, status |-> "downloading",
          error |-> "O modelo esta sendo baixado...", raw |-> ""]
    ELSE [available |-> FALSE, status |-> raw,
          error |-> "Gemini Nano nao disponivel: ", raw |-> raw]

MapAvailability(raw) ==
    IF raw \in {"readily", "available"}
    THEN [available |-> TRUE, status |-> "ready", error |-> "", raw |-> ""]
    ELSE IF raw \in {"after-download", "downloading"}
    THEN [available |-> FALSE, status |-> "downloading",
          error |-> "O modelo esta sendo baixado...", raw |-> ""]
    ELSE IF raw = "downloadable"
    THEN [available |-> FALSE, status |-> "downloadable",
          error |-> "O modelo precisa ser baixado.", raw |-> ""]
    ELSE [available |-> FALSE, status |-> raw,
          error |-> "Gemini Nano nao disponivel: ", raw |-> raw]

Unsupported == [available |-> FALSE, status |-> "unsupported",
                error |-> "Chrome 127+ e necessario", raw |-> ""]
NoApi == [available |-> FALSE, status |-> "no-api",
          error |-> "A API LanguageModel nao esta disponivel", raw |-> ""]
QueryFailed == [available |-> FALSE, status |-> "error",
                error |-> "error.message", raw |-> ""]

\* The result of initialize for an availability that is not available.
InitFailure(av) ==
    [NoOutcome EXCEPT !.settled = "resolved", !.success = FALSE,
                       !.status = av.status, !.error = av.error]
InitSuccess ==
    [NoOutcome EXCEPT !.settled = "resolved", !.success = TRUE, !.status = "ready"]
Rejected(msg) == [NoOutcome EXCEPT !.settled = "rejected", !.error = msg]

\* An initialize without its catch block, which rejects; C15_InitializeResolves
\* tells it from InitCaught.
InitUncaught == Rejected("error.message")

\* The result the catch block of initialize returns.
InitCaught ==
    [NoOutcome EXCEPT !.settled = "resolved", !.success = FALSE,
                       !.status = "error", !.error = "error.message"]

\* ---------------------------------------------------------- createSession
\* The host sessions alive once createSession has destroyed the one held.
DestroyOld == IF session # 0 /\ hasDestroy THEN live \ {session} ELSE live
DestroyedOld == IF session # 0 /\ hasDestroy THEN 1 ELSE 0

\* ------------------------------------------------------------- initialize
\* initialize without its fast path; C9_InitializeIdempotent tells it from
\* HasLiveSession.
NeverLive == FALSE

\* The test of initialize's fast path.
HasLiveSession == isInitialized /\ session # 0

\* initialize(), to its first await on the host or to its return.
InitializeCall(c) ==
    /\ IsFree(c)
    /\ nInits < MaxInits
    /\ nInits' = nInits + 1
    /\ LET rec == [EmptyCall EXCEPT !.kind = "init",
                                     !.overlap = \E d \in Calls : InFlight(d)]
           done(av) == [rec EXCEPT !.pc = "done", !.avail = av,
                                   !.out = InitFailure(av)]
       IN call' = [Swept EXCEPT ![c] =
              IF HasLiveSession
              THEN [rec EXCEPT !.pc = "done", !.fast = TRUE, !.out = InitSuccess]
              ELSE IF VersionTooOld(chromeVersion) THEN done(Unsupported)
              ELSE IF aiShape = "none" THEN done(NoApi)
              ELSE IF aiShape = "neither" THEN done(MapAvailability("no"))
              ELSE [rec EXCEPT !.pc = "query", !.queried = 1]]
    /\ UNCHANGED <<coreVars, hostVars, nRequests, nSetups>>
    /\ stopReturned' = "none"
    /\ UNCHANGED sw

\* The capability query returns raw: checkAvailability maps it, and initialize
\* returns the failure or goes on to createSession, to its await on create.
HostQueryReturn(c, raw) ==
    /\ call[c].pc = "query"
    /\ LET av == MapAvailability(raw)
       IN IF ~av.available
          THEN /\ call' = [Swept EXCEPT ![c].pc = "done", ![c].avail = av,
                                       ![c].answer = raw,
                                       ![c].out = InitFailure(av)]
               /\ UNCHANGED live
          ELSE /\ call' = [Swept EXCEPT ![c].pc = "create", ![c].avail = av,
                                       ![c].answer = raw, ![c].attempts = @ + 1,
                                       ![c].destroyed = @ + DestroyedOld]
               /\ live' = DestroyOld
    /\ UNCHANGED <<coreVars, hostConf, nSessions, nChunks, counters>>
    /\ stopReturned' = "none"
    /\ UNCHANGED sw

\* The capability query throws.
HostQueryThrow(c) ==
    /\ call[c].pc = "query"
    /\ call' = [Swept EXCEPT ![c].pc = "done", ![c].avail = QueryFailed,
                            ![c].out = InitFailure(QueryFailed)]
    /\ UNCHANGED <<coreVars, hostVars, counters>>
    /\ stopReturned' = "none"
    /\ UNCHANGED sw

\* createSession() called directly, to its await on create.
CreateSessionCall(c) ==
    /\ IsFree(c)
    /\ nSetups < MaxSetups
    /\ nSetups' = nSetups + 1
    /\ LET rec == [EmptyCall EXCEPT !.kind = "create",
                                     !.overlap = \E d \in Calls : InFlight(d),
                                     !.destroyed = DestroyedOld]
       IN IF aiShape = "none"
          THEN call' = [Swept EXCEPT ![c] =
                   [rec EXCEPT !.pc = "done",
                               !.out = Rejected("LanguageModel is not defined")]]
          ELSE call' = [Swept EXCEPT ![c] = [rec EXCEPT !.pc = "create"]]
    /\ live' = DestroyOld
    /\ UNCHANGED <<coreVars, hostConf, nSessions, nChunks, nRequests, nInits>>
    /\ stopReturned' = "none"
    /\ UNCHANGED sw

\* ------------------------------------------------------------ processText
\* A finally block that resets the busy flag and leaves the AbortController;
\* C13_SettledClearsFlags tells it from Finally.
FinallyKeepsController(c, rec) ==
    /\ isProcessing' = FALSE
    /\ UNCHANGED abortController
    /\ call' = [Swept EXCEPT ![c] = rec]

\* The finally block of processText, and the call's record as it leaves.
Finally(c, rec) ==
    /\ isProcessing' = FALSE
    /\ abortController' = 0
    /\ call' = [Swept EXCEPT ![c] = rec]

\* The cancellation result of the outer catch block, which drops the partial
\* text; C3_AbortKeepsPartial tells it from AbortedResult.
AbortedResultEmpty(result) == << >>

\* The result text of a cancellation caught inside the stream.
AbortedResult(result) == IF result = << >> THEN StoppedMsg ELSE result

\* A chunk put in front of the accumulated result; C2_CleanStreamNotifications
\* tells it from AppendChunk.
PrependChunk(result, chunk) == chunk \o result

\* What a delivered chunk adds to the accumulated result.
AppendChunk(result, chunk) == result \o chunk

\* A fallback that keeps the partial text in front of the blocking text;
\* C5_FallbackResult tells it from FallbackResult.
FallbackKeepsPartial(partial, t) == partial \o t

\* The result after the blocking prompt of the fallback returned t.
FallbackResult(partial, t) == t

Resolved(success, abortedFlag, result) ==
    [NoOutcome EXCEPT !.settled = "resolved", !.success = success,
                       !.aborted = abortedFlag, !.result = result]

\* processText from its entry to its first await, entered with the call's record
\* rec while this.session is sess: the two guards, then the busy flag, a fresh
\* AbortController, the start notification and the stream or prompt opened.  The
\* retry (rec.depth > 0) is entered inside the catch block of the attempt before
\* it, so what it throws passes through that attempt's finally block.
Enter(c, rec, sess) ==
    IF sess = 0 \/ isProcessing
    THEN LET r == [rec EXCEPT !.pc = "done",
                              !.out = Rejected(IF sess = 0 THEN ErrNoSession
                                                           ELSE ErrBusy)]
         IN IF rec.depth = 0
            THEN /\ call' = [Swept EXCEPT ![c] = r]
                 /\ UNCHANGED <<isProcessing, abortController>>
            ELSE Finally(c, r)
    ELSE /\ isProcessing' = TRUE
         /\ abortController' = c
         /\ call' = [Swept EXCEPT ![c] =
                [rec EXCEPT !.pc = IF hasStreaming THEN "stream" ELSE "prompt",
                            !.sess = sess, !.signalled = FALSE,
                            !.result = << >>, !.delivered = << >>,
                            !.fellBack = FALSE,
                            !.prompts = IF hasStreaming THEN 0 ELSE 1,
                            !.reruns = IF rec.depth > 0 THEN @ + 1 ELSE @,
                            !.earlier = @ + Len(rec.notes),
                            !.notes = <<Note("start", << >>, rec.meta)>>]]

\* processText(text, 'ask', {conversationId: meta}) called.
ProcessCall(c, text, meta) ==
    /\ IsFree(c)
    /\ nRequests < MaxRequests
    /\ nRequests' = nRequests + 1
    /\ Enter(c, [EmptyCall EXCEPT !.kind = "process", !.text = text, !.meta = meta,
                                   !.heldLive = session \in live,
                                   !.overlap = \E d \in Calls :
                                       call[d].kind = "process" /\ InFlight(d)],
             session)
    /\ UNCHANGED <<session, isInitialized, hostVars, nSetups, nInits>>
    /\ stopReturned' = "none"
    /\ UNCHANGED sw

\* The host may raise err on the stream or prompt of call c: the cancellation
\* error once the call's signal is raised or its session is destroyed, the
\* others at any time; a destroyed/quota error only while the retry it provokes
\* stays within MaxDepth.
MayRaise(c, err) ==
    /\ err = "AbortError" => (call[c].signalled \/ call[c].sess \notin live)
    /\ err = "expired" => call[c].depth < MaxDepth

\* A test of the error's name that never recognises the cancellation error;
\* C17_AbortResolves tells it from IsAbort.
IsAbortNever(err) == FALSE

\* error.name === 'AbortError'
IsAbort(err) == err = "AbortError"

\* Where the host raised the cancellation error, for the call's record.
Raised(err, pc) == IF err = "AbortError" THEN pc ELSE ""

\* The stream delivers a chunk.
HostStreamChunk(c, chunk) ==
    /\ call[c].pc = "stream"
    /\ nChunks < MaxChunks
    /\ nChunks' = nChunks + 1
    /\ call' = [Swept EXCEPT
           ![c].delivered = Append(@, chunk),
           ![c].result = IF chunk # << >> THEN AppendChunk(@, chunk) ELSE @,
           ![c].notes = IF chunk # << >>
                        THEN Append(@, Note("chunk", chunk, call[c].meta)) ELSE @]
    /\ UNCHANGED <<coreVars, hostConf, live, nSessions, counters>>
    /\ stopReturned' = "none"
    /\ UNCHANGED sw

\* The completion callback, the success result and the finally block.
Complete(c, rec) ==
    Finally(c, [rec EXCEPT !.pc = "done",
                           !.notes = Append(@, Note("complete", rec.result, rec.meta)),
                           !.out = Resolved(TRUE, FALSE, rec.result)])

\* The stream ends.
HostStreamEnd(c) ==
    /\ call[c].pc = "stream"
    /\ Complete(c, call[c])
    /\ UNCHANGED <<session, isInitialized, hostVars, counters>>
    /\ stopReturned' = "none"
    /\ UNCHANGED sw

\* The outer catch block for an error that is neither a cancellation nor a
\* destroyed/quota error: the error callback, then the rethrow.
Fail(c, rec, msg) ==
    Finally(c, [rec EXCEPT !.pc = "done",
                           !.notes = Append(@, Note("error", <<msg>>, rec.meta)),
                           !.out = Rejected(msg)])

\* The stream raises err: a cancellation returns the partial text; any other
\* error falls back to a blocking prompt on the session now held.
HostStreamThrow(c, err) ==
    /\ call[c].pc = "stream"
    /\ MayRaise(c, err)
    /\ LET rec == [call[c] EXCEPT !.hostAbort = Raised(err, call[c].pc)]
       IN IF IsAbort(err)
          THEN Finally(c, [rec EXCEPT !.pc = "done", !.abortedIn = "stream",
                               !.out = Resolved(FALSE, TRUE,
                                                AbortedResult(call[c].result))])
          ELSE IF session = 0
          THEN Fail(c, [rec EXCEPT !.streamErrs = @ + 1, !.fellBack = TRUE],
                    "Cannot read properties of null")
          ELSE /\ call' = [Swept EXCEPT ![c] =
                       [rec EXCEPT !.pc = "fallback", !.sess = session,
                                   !.streamErrs = @ + 1, !.fellBack = TRUE,
                                   !.prompts = @ + 1]]
               /\ UNCHANGED <<isProcessing, abortController>>
    /\ UNCHANGED <<session, isInitialized, hostVars, counters>>
    /\ stopReturned' = "none"
    /\ UNCHANGED sw

\* The blocking prompt returns t.
HostPromptResolve(c, t) ==
    /\ call[c].pc \in {"prompt", "fallback"}
    /\ LET res == IF call[c].pc = "fallback" THEN FallbackResult(call[c].result, t)
                  ELSE t
       IN Complete(c, [call[c] EXCEPT
              !.result = res, !.blockText = t,
              !.notes = Append(@, Note("chunk", res, call[c].meta))])
    /\ UNCHANGED <<session, isInitialized, hostVars, counters>>
    /\ stopReturned' = "none"
    /\ UNCHANGED sw

\* The blocking prompt raises err: the outer catch block.  A destroyed/quota
\* error runs createSession to its await on create.
PromptThrown(c, err) ==
    /\ call[c].pc \in {"prompt", "fallback"}
    /\ LET rec == [call[c] EXCEPT !.hostAbort = Raised(err, call[c].pc)]
       IN IF IsAbort(err)
          THEN /\ Finally(c, [rec EXCEPT !.pc = "done", !.abortedIn = "top",
                                  !.out = Resolved(FALSE, TRUE, << >>)])
               /\ UNCHANGED <<isInitialized, live>>
          ELSE IF err = "expired"
          THEN /\ isInitialized' = FALSE
               /\ live' = DestroyOld
               /\ call' = [Swept EXCEPT ![c] =
                       [rec EXCEPT !.pc = "recreate", !.recreated = @ + 1,
                                   !.destroyed = @ + DestroyedOld]]
               /\ UNCHANGED <<isProcessing, abortController>>
          ELSE /\ Fail(c, rec, "other")
               /\ UNCHANGED <<isInitialized, live>>
    /\ UNCHANGED <<session, hostConf, nSessions, nChunks, counters>>
    /\ stopReturned' = "none"
    /\ UNCHANGED sw

HostPromptThrow(c, err) == MayRaise(c, err) /\ PromptThrown(c, err)

\* The blocking prompt of a host on which every session fails prompts with a
\* destroyed/quota error, however deep the retry, up to MaxRetries.
HostPromptExpired(c) == call[c].depth < MaxRetries /\ PromptThrown(c, "expired")

\* LanguageModel.create resolves with a new session: createSession stores it and
\* returns, and its caller goes on: initialize marks the core initialized,
\* processText marks it initialized and calls itself again.
HostCreateResolve(c) ==
    /\ call[c].pc \in {"create", "recreate"}
    /\ nSessions' = nSessions + 1
    /\ live' = live \cup {nSessions + 1}
    /\ session' = nSessions + 1
    /\ IF call[c].kind = "init"
       THEN /\ isInitialized' = TRUE
            /\ call' = [Swept EXCEPT ![c].pc = "done", ![c].created = @ + 1,
                                    ![c].setInit = TRUE, ![c].out = InitSuccess]
            /\ UNCHANGED <<isProcessing, abortController>>
       ELSE IF call[c].kind = "create"
       THEN /\ call' = [Swept EXCEPT ![c].pc = "done", ![c].created = @ + 1,
                                    ![c].out = Resolved(TRUE, FALSE, << >>)]
            /\ UNCHANGED <<isInitialized, isProcessing, abortController>>
       ELSE /\ isInitialized' = TRUE
            /\ Enter(c, [call[c] EXCEPT !.created = @ + 1, !.setInit = TRUE,
                                        !.depth = @ + 1],
                     nSessions + 1)
    /\ UNCHANGED <<hostConf, nChunks, counters>>
    /\ stopReturned' = "none"
    /\ UNCHANGED sw

\* LanguageModel.create rejects: initialize returns the error as a result,
\* createSession and processText reject.
HostCreateReject(c) ==
    /\ call[c].pc \in {"create", "recreate"}
    /\ IF call[c].kind = "init"
       THEN /\ call' = [Swept EXCEPT ![c].pc = "done", ![c].out = InitCaught]
            /\ UNCHANGED <<isProcessing, abortController>>
       ELSE IF call[c].kind = "create"
       THEN /\ call' = [Swept EXCEPT ![c].pc = "done",
                                    ![c].out = Rejected("create failed")]
            /\ UNCHANGED <<isProcessing, abortController>>
       ELSE Finally(c, [call[c] EXCEPT !.pc = "done",
                                       !.out = Rejected("create failed")])
    /\ UNCHANGED <<session, isInitialized, hostVars, counters>>
    /\ stopReturned' = "none"
    /\ UNCHANGED sw

\* ---------------------------------------------------------- stopProcessing
\* A stopProcessing that aborts and drops the AbortController and leaves the
\* busy flag; C14_StopProcessing tells it from StopProcessing.
StopKeepsBusy ==
    /\ IF abortController # 0
       THEN /\ call' = [Swept EXCEPT ![abortController].signalled = TRUE]
            /\ abortController' = 0
            /\ stopReturned' = "true"
       ELSE /\ call' = Swept
            /\ UNCHANGED abortController
            /\ stopReturned' = "false"
    /\ UNCHANGED <<session, isInitialized, isProcessing, hostVars, counters>>
    /\ UNCHANGED sw

StopProcessing ==
    /\ IF abortController # 0
       THEN /\ call' = [Swept EXCEPT ![abortController].signalled = TRUE]
            /\ abortController' = 0
            /\ isProcessing' = FALSE
            /\ stopReturned' = "true"
       ELSE /\ call' = Swept
            /\ UNCHANGED <<abortController, isProcessing>>
            /\ stopReturned' = "false"
    /\ UNCHANGED <<session, isInitialized, hostVars, counters>>
    /\ UNCHANGED sw

\* ----------------------------------------------------------------- destroy
Destroy ==
    /\ live' = DestroyOld
    /\ session' = 0
    /\ isProcessing' = FALSE
    /\ isInitialized' = FALSE
    /\ call' = Swept
    /\ UNCHANGED <<abortController, hostConf, nSessions, nChunks, counters>>
    /\ stopReturned' = "none"
    /\ UNCHANGED sw

\* ------------------------------------------------------------ GeminiNanoApp
\* The app's fields.  A conversation id or processingConversationId of 0 is
\* null (or undefined); dom is the list of message elements under #messages,
\* each with its role and the content of its .message-content; sidebar is what
\* renderConversationsList last drew; clock is the value Date.now() returns
\* next, taken to differ between two conversations.  The theme, the status
\* overlay and the size of the textarea touch none of these and are left out.
ErrorText == <<"Desculpe, ocorreu um erro ao processar sua mensagem.">>
Msg(role, content) == [role |-> role, content |-> content]
Saved == [id |-> 1, title |-> <<"q">>,
          messages |-> <<Msg("user", <<"q">>), Msg("assistant", <<"x">>)>>]

\* formatMessage rewrites line breaks, asterisks and backquotes; the texts of
\* the model hold none of them.
FormatMessage(content) == content

Element(role, isTyping, content) ==
    [role |-> role, typing |-> isTyping,
     text |-> IF isTyping THEN << >> ELSE FormatMessage(content), cursor |-> FALSE]

AddMessage(a, content, role, isTyping) ==
    [a EXCEPT !.dom = Append(@, Element(role, isTyping, content))]

\* findIndex: the first conversation with this id, 0 when there is none.
FindIndex(convs, id) ==
    IF \E i \in 1..Len(convs) : convs[i].id = id
    THEN CHOOSE i \in 1..Len(convs) :
             convs[i].id = id /\ \A j \in 1..(i - 1) : convs[j].id # id
    ELSE 0

RenderConversationsList(a) ==
    [a EXCEPT !.sidebar =
        [showNew |-> a.currentConversationId = 0 /\ a.currentConversation = << >>,
         items |-> [i \in 1..Len(a.conversations) |-> a.conversations[i].id],
         active |-> a.currentConversationId]]

SaveConversations(a) == [a EXCEPT !.stored = a.conversations]

SaveCurrentConversation(a) ==
    LET idx == FindIndex(a.conversations, a.currentConversationId)
        new == [id |-> a.clock, title |-> a.currentConversation[1].content,
                messages |-> a.currentConversation]
    IN IF a.currentConversation = << >> THEN a
       ELSE IF a.currentConversationId # 0 /\ idx # 0
       THEN SaveConversations(
                [a EXCEPT !.conversations[idx].messages = a.currentConversation])
       ELSE RenderConversationsList(SaveConversations(
                [a EXCEPT !.currentConversationId = new.id,
                          !.conversations = <<new>> \o @,
                          !.clock = @ + 1]))

\* handleStreaming without its test of the displayed conversation;
\* C10_SwitchedConversation tells it from HandleStreaming.
HandleStreamingAnyView(a, chunk, isStart, meta) ==
    LET a1 == [a EXCEPT !.processingResponse =
                            IF isStart THEN << >> ELSE @ \o chunk]
        n == Len(a1.dom)
        hasAi == n > 0 /\ a1.dom[n].role = "ai"
        a2 == IF hasAi THEN a1 ELSE AddMessage(a1, << >>, "ai", FALSE)
        m == Len(a2.dom)
    IN [a2 EXCEPT !.dom[m] =
           [@ EXCEPT !.typing = FALSE, !.cursor = TRUE,
                     !.text = IF isStart THEN << >> ELSE a1.processingResponse]]

HandleStreaming(a, chunk, isStart, meta) ==
    LET a1 == [a EXCEPT !.processingResponse =
                            IF isStart THEN << >> ELSE @ \o chunk]
        n == Len(a1.dom)
        hasAi == n > 0 /\ a1.dom[n].role = "ai"
        a2 == IF hasAi THEN a1 ELSE AddMessage(a1, << >>, "ai", FALSE)
        m == Len(a2.dom)
    IN IF a1.currentConversationId # meta THEN a1
       ELSE IF ~hasAi /\ a1.processingResponse = << >> THEN a1
       ELSE [a2 EXCEPT !.dom[m] =
                [@ EXCEPT !.typing = FALSE, !.cursor = TRUE,
                          !.text = IF isStart THEN << >>
                                   ELSE FormatMessage(a1.processingResponse)]]

HandleCompletion(a, result, meta) ==
    LET idx == FindIndex(a.conversations, meta)
        a1 == IF idx # 0
              THEN SaveConversations(
                       [a EXCEPT !.conversations[idx].messages =
                                     Append(@, Msg("assistant", result))])
              ELSE a
        n == Len(a1.dom)
        a2 == IF a1.currentConversationId = meta
              THEN [a1 EXCEPT
                       !.dom = IF n > 0 /\ a1.dom[n].role = "ai"
                               THEN [@ EXCEPT ![n] =
                                        [@ EXCEPT !.typing = FALSE, !.cursor = FALSE,
                                                  !.text = FormatMessage(result)]]
                               ELSE @,
                       !.currentConversation = Append(@, Msg("assistant", result))]
              ELSE a1
    IN [a2 EXCEPT !.processingResponse = << >>]

\* The callback the core invokes for one notification.
Callback(a, note) ==
    IF note.k = "start" THEN HandleStreaming(a, << >>, TRUE, note.meta)
    ELSE IF note.k = "chunk" THEN HandleStreaming(a, note.t, FALSE, note.meta)
    ELSE IF note.k = "complete" THEN HandleCompletion(a, note.t, note.meta)
    ELSE a

RECURSIVE Callbacks(_, _)
Callbacks(a, notes) ==
    IF notes = << >> THEN a ELSE Callbacks(Callback(a, Head(notes)), Tail(notes))

\* The catch and finally blocks of sendMessage, once processText has settled
\* with outcome out for the conversation conversationId.
SendSettled(a, out, conversationId) ==
    LET a1 == IF out.settled = "rejected" /\ a.currentConversationId = conversationId
              THEN AddMessage(a, ErrorText, "ai", FALSE) ELSE a
    IN [a1 EXCEPT !.sendDisabled = FALSE,
                  !.processingConversationId =
                      IF @ = conversationId THEN 0 ELSE @]

\* The callbacks call c invokes in this step.
Emitted(c) ==
    IF call'[c].kind # "process" THEN << >>
    ELSE IF call[c].kind # "process" \/ call[c].pc = "done"
            \/ call'[c].earlier # call[c].earlier
    THEN call'[c].notes
    ELSE SubSeq(call'[c].notes, Len(call[c].notes) + 1, Len(call'[c].notes))

\* The app after a step of call c, entered as a: the callbacks run, and the
\* sendMessage that awaits the call goes on when the call settles.
React(a, c) ==
    LET a1 == Callbacks(a, Emitted(c))
    IN IF call'[c].kind = "process" /\ call'[c].pc = "done"
       THEN SendSettled(a1, call'[c].out, call'[c].meta)
       ELSE a1

\* sendMessage with text in the input, to its await on processText.
SendMessage(c, text) ==
    /\ text # << >>
    /\ ~isProcessing
    /\ LET a1 == AddMessage([app EXCEPT !.welcomeHidden = TRUE], text, "user", FALSE)
           a2 == [a1 EXCEPT !.currentConversation = Append(@, Msg("user", text))]
           a3 == IF a2.currentConversationId = 0
                 THEN SaveCurrentConversation(a2) ELSE a2
           conversationId == a3.currentConversationId
           a4 == AddMessage([a3 EXCEPT !.processingConversationId = conversationId,
                                       !.sendDisabled = TRUE],
                            << >>, "ai", TRUE)
       IN /\ ProcessCall(c, text, conversationId)
          /\ app' = React(a4, c)

NewConversation ==
    /\ LET a1 == IF app.currentConversation # << >> /\ app.currentConversationId = 0
                 THEN SaveCurrentConversation(app) ELSE app
       IN app' = RenderConversationsList(
                     [a1 EXCEPT !.currentConversation = << >>,
                                !.currentConversationId = 0,
                                !.dom = << >>,
                                !.welcomeHidden = FALSE])
    /\ call' = Swept
    /\ UNCHANGED <<coreVars, hostVars, counters>>
    /\ stopReturned' = "none"
    /\ UNCHANGED sw

RECURSIVE AddMessages(_, _)
AddMessages(a, msgs) ==
    IF msgs = << >> THEN a
    ELSE AddMessages(AddMessage(a, Head(msgs).content,
                                IF Head(msgs).role = "user" THEN "user" ELSE "ai",
                                FALSE),
                     Tail(msgs))

\* A click on the i-th conversation of the sidebar.
LoadConversation(i) ==
    /\ i \in 1..Len(app.sidebar.items)
    /\ LET idx == FindIndex(app.conversations, app.sidebar.items[i])
           conversation == app.conversations[idx]
           a1 == AddMessages([app EXCEPT !.currentConversationId = conversation.id,
                                         !.currentConversation = conversation.messages,
                                         !.dom = << >>,
                                         !.welcomeHidden = TRUE],
                             conversation.messages)
           a2 == IF a1.processingConversationId = conversation.id
                    /\ a1.processingResponse # << >>
                 THEN [a1 EXCEPT !.dom = Append(@,
                          [role |-> "ai", typing |-> FALSE, cursor |-> TRUE,
                           text |-> FormatMessage(a1.processingResponse)])]
                 ELSE a1
       IN /\ idx # 0
          /\ app' = RenderConversationsList(a2)
    /\ call' = Swept
    /\ UNCHANGED <<coreVars, hostVars, counters>>
    /\ stopReturned' = "none"
    /\ UNCHANGED sw

\* clearHistory, the user having confirmed.
ClearHistory ==
    /\ app' = RenderConversationsList(SaveConversations(
                  [app EXCEPT !.conversations = << >>,
                              !.currentConversation = << >>,
                              !.dom = << >>,
                              !.welcomeHidden = FALSE]))
    /\ call' = Swept
    /\ UNCHANGED <<coreVars, hostVars, counters>>
    /\ stopReturned' = "none"
    /\ UNCHANGED sw

\* The app once its constructor has loaded the conversations convs.
StartedApp(convs) ==
    RenderConversationsList(
        [conversations |-> convs, stored |-> convs, currentConversation |-> << >>,
         currentConversationId |-> 0, processingConversationId |-> 0,
         processingResponse |-> << >>, dom |-> << >>, welcomeHidden |-> FALSE,
         sendDisabled |-> FALSE, sidebar |-> << >>, clock |-> 2])

\* ------------------------------------------------------- the service worker
\* src/sw.js.  The worker is a second script of the origin: it shares no
\* variable with the page, only the origin's cache storage and the network.

CACHE_NAME == "gemini-nano-offline-v1"

CORE_ASSETS ==
    <<"./", "./index.html", "./style.css", "./app.js", "./ai-core.js", "./manifest.json">>

CoreUrls == {CORE_ASSETS[i] : i \in 1..Len(CORE_ASSETS)}

\* A URL of the origin that is not a core asset.
OtherUrl == "./icon.png"

\* Buckets other scripts or earlier versions of the worker left in the origin.
OldBuckets == {"gemini-nano-offline-v0", "other-cache"}

BucketNames == OldBuckets \cup {CACHE_NAME}

\* A response: whether its status is in the 200s, and who produced it.
\* fetch() resolves with a response whatever its status; it rejects only
\* when the network gives no response at all.
NoResponse == [ok |-> FALSE, from |-> "none"]
InstalledResponse == [ok |-> TRUE, from |-> "install"]
OldResponse == [ok |-> TRUE, from |-> "old"]
NetResponses == {[ok |-> TRUE, from |-> "network"], [ok |-> FALSE, from |-> "network"]}

Requests ==
    [method : {"GET", "POST"}, mode : {"navigate", "no-cors"},
     url : {"./index.html", "./app.js", OtherUrl}]

\* The cache writes the fetch handler can start.
CacheWrites == [key : {r.url : r \in Requests}, resp : NetResponses]

NoRequest == [method |-> "none", mode |-> "none", url |-> "none"]

\* A cache is a function from the URLs it holds to their responses; the
\* cache storage is a function from the names of its buckets to caches.
EmptyCache == [u \in {} |-> NoResponse]

\* cache.put(key, response): adds or replaces the entry.
CachePut(cache, key, resp) ==
    [u \in DOMAIN cache \cup {key} |-> IF u = key THEN resp ELSE cache[u]]

\* caches.open(name): creates the bucket when it is missing.
CachesOpen(buckets, name) ==
    [n \in DOMAIN buckets \cup {name} |->
        IF n \in DOMAIN buckets THEN buckets[n] ELSE EmptyCache]

\* caches.delete(name)
CachesDelete(buckets, name) == [n \in DOMAIN buckets \ {name} |-> buckets[n]]

\* caches.match(url): the entry of a bucket that holds the URL, NoResponse
\* (undefined) when none does.  Fetch events reach the worker only once it is
\* activated, and then the storage holds the current bucket alone.
CachesMatch(buckets, url) ==
    LET holding == {n \in DOMAIN buckets : url \in DOMAIN buckets[n]}
    IN IF holding = {} THEN NoResponse
       ELSE buckets[CHOOSE n \in holding : TRUE][url]

\* cache.addAll(CORE_ASSETS) once every asset was fetched with an ok status.
AddAll(cache) ==
    [u \in DOMAIN cache \cup CoreUrls |->
        IF u \in CoreUrls THEN InstalledResponse ELSE cache[u]]

\* The fetch event being handled: where its handler stands, how many times it
\* called fetch(), how many cache writes it started, what caches.match gave
\* it, and what the page got.
NoAnswer == [by |-> "none", resp |-> NoResponse]

IdleEvent ==
    [pc |-> "idle", req |-> NoRequest, fetches |-> 0, puts |-> 0,
     matched |-> NoResponse, answer |-> NoAnswer]

\* The worker after its script was evaluated, in an origin holding the given
\* buckets.
NewWorker(buckets) ==
    [phase |-> "parsed", buckets |-> buckets, keys |-> {}, toDelete |-> {},
     installed |-> EmptyCache, ev |-> IdleEvent, puts |-> {}, nEvents |-> 0]

\* A page that runs without the worker.
NoWorker == NewWorker([n \in {} |-> EmptyCache])

\* The storage the worker can find when it is installed: any of the old
\* buckets, and possibly a bucket of the current name that an earlier
\* installation filled.
StoragesBefore ==
    {[n \in names |->
        IF n = CACHE_NAME
        THEN [u \in {"./index.html", OtherUrl} |-> OldResponse]
        ELSE [u \in {"./index.html"} |-> OldResponse]]
     : names \in SUBSET BucketNames}

\* install: the bucket is opened and the core assets are added together, or
\* not at all when one of them cannot be fetched, which fails the
\* installation.  skipWaiting() lets the worker activate once installed.
Install(fetched) ==
    /\ sw.phase = "parsed"
    /\ LET opened == CachesOpen(sw.buckets, CACHE_NAME)
           filled == [opened EXCEPT ![CACHE_NAME] = AddAll(@)]
       IN sw' = IF fetched
                THEN [sw EXCEPT !.phase = "installed", !.buckets = filled,
                                !.installed = filled[CACHE_NAME]]
                ELSE [sw EXCEPT !.phase = "redundant", !.buckets = opened]
    /\ UNCHANGED pageVars

\* The filter of the activate handler: the keys to delete.
AllKeys(key) == TRUE

IsStale(key) == key # CACHE_NAME

\* activate, to the result of caches.keys(): a delete is started for every
\* stale key.
Activate ==
    /\ sw.phase = "installed"
    /\ sw' = [sw EXCEPT !.phase = "activating",
                        !.keys = DOMAIN sw.buckets,
                        !.toDelete = {key \in DOMAIN sw.buckets : IsStale(key)}]
    /\ UNCHANGED pageVars

\* One caches.delete(key) of the activate handler completes.
ActivateDelete(key) ==
    /\ sw.phase = "activating"
    /\ key \in sw.toDelete
    /\ sw' = [sw EXCEPT !.buckets = CachesDelete(@, key),
                        !.toDelete = @ \ {key}]
    /\ UNCHANGED pageVars

\* Promise.all of the deletes resolves: the activate handler completes.
ActivateDone ==
    /\ sw.phase = "activating"
    /\ sw.toDelete = {}
    /\ sw' = [sw EXCEPT !.phase = "activated"]
    /\ UNCHANGED pageVars

\* The settled event with its answer.
Answered(ev, by, resp) ==
    [ev EXCEPT !.pc = "done", !.answer = [by |-> by, resp |-> resp]]

\* fetch, to its first await: a non-GET request is left to the browser, a
\* navigation goes to the network, anything else to caches.match.
FetchEvent(request) ==
    /\ sw.phase = "activated"
    /\ sw.ev.pc \in {"idle", "done"}
    /\ sw.nEvents < MaxEvents
    /\ LET ev == [IdleEvent EXCEPT !.req = request]
       IN sw' = [sw EXCEPT
              !.nEvents = @ + 1,
              !.ev = IF request.method # "GET" THEN Answered(ev, "browser", NoResponse)
                     ELSE IF request.mode = "navigate"
                          THEN [ev EXCEPT !.pc = "fetch", !.fetches = 1]
                     ELSE [ev EXCEPT !.pc = "match"]]
    /\ UNCHANGED pageVars

\* The test of the cache-first branch: if (cachedResponse).
NeverCached(resp) == FALSE

IsCached(resp) == resp # NoResponse

\* caches.match(request) resolves in the cache-first branch.
MatchResolve ==
    /\ sw.ev.pc = "match"
    /\ LET cachedResponse == CachesMatch(sw.buckets, sw.ev.req.url)
           ev == [sw.ev EXCEPT !.matched = cachedResponse]
       IN sw' = [sw EXCEPT !.ev =
                    IF IsCached(cachedResponse)
                    THEN Answered(ev, "cache", cachedResponse)
                    ELSE [ev EXCEPT !.pc = "fetch", !.fetches = @ + 1]]
    /\ UNCHANGED pageVars

\* The key under which a branch stores the response of the network.
PutKey(request) == IF request.mode = "navigate" THEN "./index.html" ELSE request.url

\* fetch(request) resolves: the response goes to the page, and a copy is
\* handed to caches.open(...).then(put), which nothing waits for.
FetchResolve(response) ==
    /\ sw.ev.pc = "fetch"
    /\ sw' = [sw EXCEPT
           !.ev = Answered([sw.ev EXCEPT !.puts = @ + 1], "network", response),
           !.puts = @ \cup {[key |-> PutKey(sw.ev.req), resp |-> response]}]
    /\ UNCHANGED pageVars

\* fetch(request) rejects: a navigation falls back to caches.match of
\* index.html, the cache-first branch answers with its cachedResponse, which
\* is undefined there.
FetchReject ==
    /\ sw.ev.pc = "fetch"
    /\ sw' = [sw EXCEPT !.ev =
                 IF sw.ev.req.mode = "navigate"
                 THEN [sw.ev EXCEPT !.pc = "fallback"]
                 ELSE Answered(sw.ev, "error", sw.ev.matched)]
    /\ UNCHANGED pageVars

\* caches.match('./index.html') resolves in the catch of a navigation.
FallbackResolve ==
    /\ sw.ev.pc = "fallback"
    /\ LET cached == CachesMatch(sw.buckets, "./index.html")
       IN sw' = [sw EXCEPT !.ev =
                    IF cached = NoResponse
                    THEN Answered([sw.ev EXCEPT !.matched = cached], "error", cached)
                    ELSE Answered([sw.ev EXCEPT !.matched = cached], "cache", cached)]
    /\ UNCHANGED pageVars

\* A pending caches.open(CACHE_NAME).then(cache => cache.put(...)) runs.
CacheWrite(p) ==
    /\ p \in sw.puts
    /\ sw' = [sw EXCEPT
           !.buckets = [CachesOpen(@, CACHE_NAME) EXCEPT
                           ![CACHE_NAME] = CachePut(@, p.key, p.resp)],
           !.puts = @ \ {p}]
    /\ UNCHANGED pageVars

\* ---------------------------------------------------------- specifications
HostInit ==
    /\ live = {}
    /\ nSessions = 0
    /\ nChunks = 0
    /\ hasStreaming \in BOOLEAN
    /\ hasDestroy \in BOOLEAN

CoreInit ==
    /\ session = 0
    /\ isProcessing = FALSE
    /\ isInitialized = FALSE
    /\ abortController = 0
    /\ call = [c \in Calls |-> EmptyCall]
    /\ nRequests = 0
    /\ nSetups = 0
    /\ nInits = 0
    /\ stopReturned = "none"

\* The chunk the host may deliver next on the stream of call c.
NextChunks(c) == ChunksAt(Len(call[c].delivered) + 1)

\* The request lifecycle: processText, stopProcessing, destroy and createSession
\* called in any order and overlapping, on a host that has the API.  initialize
\* is left to SpecInit: it acts on the requests only through the createSession
\* it runs.
Init ==
    /\ CoreInit
    /\ HostInit
    /\ chromeVersion = MinChromeVersion
    /\ aiShape = "capabilities"
    /\ app = StartedApp(<< >>)
    /\ sw = NoWorker

Next ==
    \/ \E c \in Calls :
        \/ CreateSessionCall(c) /\ UNCHANGED app
        \/ (\E t \in Texts : ProcessCall(c, t, 0)) /\ UNCHANGED app
        \/ HostCreateResolve(c) /\ UNCHANGED app
        \/ HostCreateReject(c) /\ UNCHANGED app
        \/ (\E ch \in NextChunks(c) : HostStreamChunk(c, ch)) /\ UNCHANGED app
        \/ HostStreamEnd(c) /\ UNCHANGED app
        \/ (\E err \in HostErrors : HostStreamThrow(c, err)) /\ UNCHANGED app
        \/ (\E t \in BlockTexts : HostPromptResolve(c, t)) /\ UNCHANGED app
        \/ (\E err \in HostErrors : HostPromptThrow(c, err)) /\ UNCHANGED app
    \/ StopProcessing /\ UNCHANGED app
    \/ Destroy /\ UNCHANGED app

Spec == Init /\ [][Next]_vars

\* Initialization: initialize called any number of times, overlapping, and
\* destroy, on every host.
InitProbe ==
    /\ CoreInit
    /\ HostInit
    /\ chromeVersion \in ChromeVersions
    /\ aiShape \in AIShapes
    /\ app = StartedApp(<< >>)
    /\ sw = NoWorker

NextInit ==
    \/ \E c \in Calls :
        \/ InitializeCall(c) /\ UNCHANGED app
        \/ (\E raw \in RawStatuses : HostQueryReturn(c, raw)) /\ UNCHANGED app
        \/ HostQueryThrow(c) /\ UNCHANGED app
        \/ HostCreateResolve(c) /\ UNCHANGED app
        \/ HostCreateReject(c) /\ UNCHANGED app
    \/ Destroy /\ UNCHANGED app

SpecInit == InitProbe /\ [][NextInit]_vars

\* initialize called again and again, each call after the one before it has
\* returned, on a host whose capability query returns 'readily' and whose
\* create resolves.
InitReady ==
    /\ CoreInit
    /\ HostInit
    /\ chromeVersion \in {v \in ChromeVersions : v >= MinChromeVersion}
    /\ aiShape \in {"capabilities", "availability"}
    /\ app = StartedApp(<< >>)
    /\ sw = NoWorker

NextReady ==
    \E c \in Calls :
        \/ (\A d \in Calls : ~InFlight(d)) /\ InitializeCall(c) /\ UNCHANGED app
        \/ HostQueryReturn(c, "readily") /\ UNCHANGED app
        \/ HostCreateResolve(c) /\ UNCHANGED app

SpecReady == InitReady /\ [][NextReady]_vars

\* One processText call on a core that holds a session, on a host on which
\* every session fails prompts with a destroyed/quota error (and streams with
\* an error), interleaved with stopProcessing.
InitExpired ==
    /\ session = 1
    /\ isProcessing = FALSE
    /\ isInitialized = TRUE
    /\ abortController = 0
    /\ live = {1}
    /\ nSessions = 1
    /\ nChunks = 0
    /\ hasStreaming \in BOOLEAN
    /\ hasDestroy \in BOOLEAN
    /\ chromeVersion = MinChromeVersion
    /\ aiShape = "capabilities"
    /\ call = [c \in Calls |-> EmptyCall]
    /\ nRequests = 0
    /\ nSetups = 0
    /\ nInits = 1
    /\ stopReturned = "none"
    /\ app = StartedApp(<< >>)
    /\ sw = NoWorker

NextExpired ==
    \/ \E c \in Calls :
        \/ nRequests = 0 /\ (\E t \in Texts : ProcessCall(c, t, 0)) /\ UNCHANGED app
        \/ (\E ch \in NextChunks(c) : HostStreamChunk(c, ch)) /\ UNCHANGED app
        \/ HostStreamThrow(c, "other") /\ UNCHANGED app
        \/ HostPromptExpired(c) /\ UNCHANGED app
        \/ HostCreateResolve(c) /\ UNCHANGED app
        \/ HostCreateReject(c) /\ UNCHANGED app
    \/ StopProcessing /\ UNCHANGED app

SpecExpired == InitExpired /\ [][NextExpired]_vars

\* processText and stopProcessing in any order, on a core that holds a session
\* and is never destroyed.
InitStop == InitExpired

NextStop ==
    \/ \E c \in Calls :
        \/ (\E t \in Texts : ProcessCall(c, t, 0)) /\ UNCHANGED app
        \/ HostCreateResolve(c) /\ UNCHANGED app
        \/ HostCreateReject(c) /\ UNCHANGED app
        \/ (\E ch \in NextChunks(c) : HostStreamChunk(c, ch)) /\ UNCHANGED app
        \/ HostStreamEnd(c) /\ UNCHANGED app
        \/ (\E err \in HostErrors : HostStreamThrow(c, err)) /\ UNCHANGED app
        \/ (\E t \in BlockTexts : HostPromptResolve(c, t)) /\ UNCHANGED app
        \/ (\E err \in HostErrors : HostPromptThrow(c, err)) /\ UNCHANGED app
    \/ StopProcessing /\ UNCHANGED app

SpecStop == InitStop /\ [][NextStop]_vars

\* The chat: the app constructed on a host that has the API, its initialize
\* awaiting the capability query, then the user's clicks and the host's steps
\* in any order.
InitApp ==
    /\ session = 0
    /\ isProcessing = FALSE
    /\ isInitialized = FALSE
    /\ abortController = 0
    /\ HostInit
    /\ chromeVersion = MinChromeVersion
    /\ aiShape = "capabilities"
    /\ call = [c \in Calls |->
                 IF c = 1 THEN [EmptyCall EXCEPT !.kind = "init", !.pc = "query",
                                                 !.queried = 1]
                 ELSE EmptyCall]
    /\ nRequests = 0
    /\ nSetups = 0
    /\ nInits = 1
    /\ stopReturned = "none"
    /\ app \in {StartedApp(<< >>), StartedApp(<<Saved>>)}
    /\ sw = NoWorker

NextApp ==
    \/ \E c \in Calls :
        \/ \E t \in Texts : SendMessage(c, t)
        \/ (\E raw \in RawStatuses : HostQueryReturn(c, raw)) /\ UNCHANGED app
        \/ HostQueryThrow(c) /\ UNCHANGED app
        \/ HostCreateResolve(c) /\ app' = React(app, c)
        \/ HostCreateReject(c) /\ app' = React(app, c)
        \/ (\E ch \in NextChunks(c) : HostStreamChunk(c, ch)) /\ app' = React(app, c)
        \/ HostStreamEnd(c) /\ app' = React(app, c)
        \/ (\E err \in HostErrors : HostStreamThrow(c, err)) /\ app' = React(app, c)
        \/ (\E t \in BlockTexts : HostPromptResolve(c, t)) /\ app' = React(app, c)
        \/ (\E err \in HostErrors : HostPromptThrow(c, err)) /\ app' = React(app, c)
    \/ NewConversation
    \/ \E i \in 1..MaxInFlight : LoadConversation(i)
    \/ ClearHistory

SpecApp == InitApp /\ [][NextApp]_vars

\* The worker alone: installed into any earlier storage, activated, then
\* handling fetch events one after the other while the cache writes earlier
\* events started are still pending.
InitWorker ==
    /\ CoreInit
    /\ HostInit
    /\ chromeVersion = MinChromeVersion
    /\ aiShape = "capabilities"
    /\ app = StartedApp(<< >>)
    /\ sw \in {NewWorker(b) : b \in StoragesBefore}

NextWorker ==
    \/ \E fetched \in BOOLEAN : Install(fetched)
    \/ Activate
    \/ \E key \in BucketNames : ActivateDelete(key)
    \/ ActivateDone
    \/ \E request \in Requests : FetchEvent(request)
    \/ MatchResolve
    \/ \E response \in NetResponses : FetchResolve(response)
    \/ FetchReject
    \/ FallbackResolve
    \/ \E p \in CacheWrites : CacheWrite(p)

SpecWorker == InitWorker /\ [][NextWorker]_vars

\* ------------------------------------------------------------- properties
Settled(c, kind) == call[c].kind = kind /\ call[c].pc = "done"
NonEmpty(chunks) == SelectSeq(chunks, LAMBDA ch : ch # << >>)
\* The texts of the chunk notifications among notes.
ChunkTexts(notes) == [i \in 1..(Len(notes) - 2) |-> notes[i + 1].t]
\* notes is one start notification, then chunk notifications only, then one
\* completion notification carrying result.
StartChunksComplete(notes, result, meta) ==
    /\ Len(notes) >= 2
    /\ notes[1] = Note("start", << >>, meta)
    /\ \A i \in 2..(Len(notes) - 1) : notes[i].k = "chunk" /\ notes[i].meta = meta
    /\ notes[Len(notes)] = Note("complete", result, meta)

\* C1: a processText call made while an earlier admitted processText call has
\* not settled is rejected with the 'already processing' error, with no start
\* notification and no stream or prompt opened, so that at most one request is
\* executing at any time.
C1_OneRequestAtATime ==
    /\ \A c \in Calls :
           call[c].kind = "process" /\ call[c].overlap
           => /\ call[c].pc = "done"
              /\ call[c].out = Rejected(ErrBusy)
              /\ call[c].notes = << >>
    /\ Cardinality({c \in Calls : call[c].kind = "process" /\ InFlight(c)}) <= 1

\* C2, as stated: every processText call that resolves with success on a
\* session with promptStreaming has invoked the callbacks with exactly one
\* start, then chunk notifications, then one completion, and the concatenation
\* of the chunk notification texts is the completion text and the result.
C2_StreamNotifications ==
    \A c \in Calls :
        Settled(c, "process") /\ call[c].out.success /\ hasStreaming
        => /\ call[c].earlier = 0
           /\ StartChunksComplete(call[c].notes, call[c].out.result, call[c].meta)
           /\ Concat(ChunkTexts(call[c].notes)) = call[c].out.result

\* C2, restricted: every processText call that resolves with success on a
\* session with promptStreaming and whose stream raised no error has invoked
\* the callbacks with exactly one start, then one chunk notification for each
\* non-empty chunk the host delivered, in the host's order, then one
\* completion, and the concatenation of the chunk notification texts is the
\* completion text and the result.
C2_CleanStreamNotifications ==
    \A c \in Calls :
        Settled(c, "process") /\ call[c].out.success /\ hasStreaming
        /\ call[c].streamErrs = 0
        => /\ call[c].earlier = 0
           /\ StartChunksComplete(call[c].notes, call[c].out.result, call[c].meta)
           /\ ChunkTexts(call[c].notes) = NonEmpty(call[c].delivered)
           /\ Concat(ChunkTexts(call[c].notes)) = call[c].out.result

\* A request has completed on its stream after two non-empty chunks.
C2_TwoChunksStreamed ==
    \E c \in Calls :
        /\ Settled(c, "process") /\ call[c].out.success /\ hasStreaming
        /\ call[c].streamErrs = 0
        /\ Len(NonEmpty(call[c].delivered)) = 2

\* C3, as stated: a streamed request cancelled after N chunks resolves with
\* aborted:true and the concatenation of those N chunks as its result, and
\* no completion notification is fired for it.
C3_AbortReturnsChunks ==
    \A c \in Calls :
        Settled(c, "process") /\ call[c].abortedIn = "stream"
        => /\ call[c].out.settled = "resolved"
           /\ call[c].out.aborted /\ ~call[c].out.success
           /\ call[c].out.result = Concat(call[c].delivered)
           /\ \A i \in 1..Len(call[c].notes) : call[c].notes[i].k # "complete"

\* C3, amended: a streamed request cancelled after N chunks resolves with
\* aborted:true and, as its result, the concatenation of those N chunks when
\* it is not empty and the text 'Parado pelo usuario' when it is; no
\* completion notification is fired for it.
C3_AbortKeepsPartial ==
    \A c \in Calls :
        Settled(c, "process") /\ call[c].abortedIn = "stream"
        => /\ call[c].out.settled = "resolved"
           /\ call[c].out.aborted /\ ~call[c].out.success
           /\ call[c].out.result =
                  IF Concat(call[c].delivered) = << >> THEN StoppedMsg
                  ELSE Concat(call[c].delivered)
           /\ \A i \in 1..Len(call[c].notes) : call[c].notes[i].k # "complete"

\* A streamed request has been cancelled after two non-empty chunks.
C3_AbortedAfterTwoChunks ==
    \E c \in Calls :
        /\ Settled(c, "process") /\ call[c].abortedIn = "stream"
        /\ Len(NonEmpty(call[c].delivered)) = 2

\* C4: a processText call that failed with a destroyed/quota error and whose
\* createSession succeeded has run createSession once and re-run the request
\* once, and settles with the outcome of the re-run, not with the 'already
\* processing' error.
C4_RetryRunsOnce ==
    \A c \in Calls :
        Settled(c, "process") /\ call[c].recreated >= 1 /\ call[c].created >= 1
        => /\ call[c].recreated = 1
           /\ call[c].created = 1
           /\ call[c].reruns = 1
           /\ call[c].out # Rejected(ErrBusy)

\* C5: when the stream raises a non-cancellation error after chunks have been
\* forwarded and the call succeeds, it has made one blocking prompt call, and
\* the completion notification and the result carry the blocking call's text
\* alone.
C5_FallbackResult ==
    \A c \in Calls :
        Settled(c, "process") /\ call[c].out.success /\ call[c].fellBack
        => /\ call[c].prompts = 1
           /\ call[c].out.result = call[c].blockText
           /\ call[c].notes[Len(call[c].notes)] =
                  Note("complete", call[c].blockText, call[c].meta)

\* A request has succeeded through the fallback after a non-empty chunk had
\* been forwarded.
C5_FellBackAfterChunk ==
    \E c \in Calls :
        /\ Settled(c, "process") /\ call[c].out.success /\ call[c].fellBack
        /\ NonEmpty(call[c].delivered) # << >>

\* C6: an initialize call whose capability query reported 'downloadable' or
\* 'downloading' returns success:false with that same status, has created no
\* session and has not set isInitialized.
C6_DownloadNotReady ==
    \A c \in Calls :
        Settled(c, "init") /\ call[c].answer \in {"downloadable", "downloading"}
        => /\ call[c].out.settled = "resolved"
           /\ ~call[c].out.success
           /\ call[c].out.status = call[c].answer
           /\ call[c].created = 0
           /\ ~call[c].setInit

\* An initialize call has returned after the query reported 'downloadable'.
C6_ReportedDownloadable ==
    \E c \in Calls : Settled(c, "init") /\ call[c].answer = "downloadable"

\* C7: the status of the result of checkAvailability is one of ready,
\* downloading, downloadable, unsupported, no-api, error, whatever the host
\* returns or throws and whatever its shape.
C7_StatusIsKind ==
    \A c \in Calls :
        Settled(c, "init") /\ ~call[c].fast
        => call[c].avail.status \in {"ready", "downloading", "downloadable",
                                     "unsupported", "no-api", "error"}

\* C8: on a Chrome below version 127 an initialize call makes no capability
\* query and creates no session, and checkAvailability gives it available:false
\* with status 'unsupported'.
C8_OldChromeUnsupported ==
    \A c \in Calls :
        call[c].kind = "init" /\ chromeVersion < MinChromeVersion
        => /\ call[c].queried = 0
           /\ call[c].created = 0
           /\ call[c].pc = "done"
           /\ ~call[c].avail.available
           /\ call[c].avail.status = "unsupported"
           /\ ~call[c].out.success
           /\ nSessions = 0

\* An initialize call has returned on Chrome 120 with the API present.
C8_InitializedOnOldChrome ==
    \E c \in Calls :
        Settled(c, "init") /\ chromeVersion = 120 /\ aiShape = "capabilities"

\* C9: on a host whose capability query returns 'readily' (and whose create
\* resolves), every one of a sequence of initialize calls returns success:true
\* with status 'ready' and one session is created in all: a call made when a
\* live session exists makes no query and creates and destroys no session.
C9_InitializeIdempotent ==
    /\ nSessions <= 1
    /\ \A c \in Calls :
           Settled(c, "init")
           => /\ call[c].out = InitSuccess
              /\ nSessions = 1
              /\ live = {session}
              /\ call[c].fast <=> nInits >= 2
              /\ call[c].fast => /\ call[c].queried = 0
                                 /\ call[c].created = 0
                                 /\ call[c].destroyed = 0

\* The third initialize call in a row has returned.
C9_ThirdInitialize ==
    \E c \in Calls : Settled(c, "init") /\ call[c].fast /\ nInits = 3

\* C11: a processText call made while the core holds no live session (none, or
\* one that has been destroyed) fails with the 'session unavailable' error and
\* emits no notification (or with the 'already processing' error when another
\* request is in flight); only a call made on a live session is admitted.
C11_AdmittedOnLiveSession ==
    \A c \in Calls :
        call[c].kind = "process" /\ ~call[c].heldLive
        => /\ call[c].pc = "done"
           /\ call[c].out \in {Rejected(ErrNoSession), Rejected(ErrBusy)}
           /\ call[c].out = Rejected(ErrBusy) => call[c].overlap
           /\ call[c].notes = << >>
           /\ call[c].earlier = 0

\* C12: on a host whose sessions can be destroyed, the host sessions created
\* and not yet destroyed are never more than one, whatever the interleaving of
\* initialize and destroy and however the calls overlap while awaiting create.
C12_OneLiveSession == hasDestroy => Cardinality(live) <= 1

\* C13: when an admitted processText call settles, by whichever path (success,
\* abort in the stream, abort at top level, error, failed recreation, failed
\* retry), the busy flag is false and the AbortController is null.
C13_SettledClearsFlags ==
    \A c \in Calls :
        Settled(c, "process") /\ call[c].notes # << >>
        => ~isProcessing /\ abortController = 0

\* An admitted request has been rejected because the recreation of its session
\* failed.
C13_SettledAfterFailedRecreation ==
    \E c \in Calls :
        /\ Settled(c, "process") /\ call[c].notes # << >>
        /\ call[c].recreated = 1 /\ call[c].created = 0
        /\ call[c].out.settled = "rejected"

\* C14: stopProcessing called while no AbortController is held returns false
\* and changes no field of the core; called while one is held it raises that
\* controller's signal, sets the controller to null and the busy flag to
\* false, and returns true; so a stopProcessing repeated at once returns false.
C14_StopProcessing ==
    [][stopReturned' # "none"
       => /\ abortController = 0
             => /\ stopReturned' = "false"
                /\ UNCHANGED coreVars
                /\ \A c \in Calls :
                       InFlight(c) => call'[c].signalled = call[c].signalled
          /\ abortController # 0
             => /\ stopReturned' = "true"
                /\ call'[abortController].signalled
                /\ abortController' = 0
                /\ ~isProcessing'
                /\ UNCHANGED <<session, isInitialized>>
          /\ stopReturned = "true" => stopReturned' = "false"]_vars

\* stopProcessing has returned true for a request that is still awaiting the
\* host, after two chunks.
C14_StoppedInFlight ==
    /\ stopReturned = "true"
    /\ \E c \in Calls :
           /\ call[c].kind = "process" /\ call[c].pc = "stream"
           /\ call[c].signalled /\ Len(call[c].delivered) = 2

\* C15: whatever the host does (the capability query throws or returns any
\* status, create rejects), an initialize call resolves with a result that has
\* a success flag and a status, and is never rejected; it calls create at most
\* once; a call that returns a failure has not set isInitialized, which is
\* false after it when no other initialize call was made.
C15_InitializeResolves ==
    \A c \in Calls :
        Settled(c, "init")
        => /\ call[c].out.settled = "resolved"
           /\ call[c].out.status # ""
           /\ call[c].out.success => call[c].out.status = "ready"
           /\ call[c].attempts <= 1
           /\ call[c].created <= call[c].attempts
           /\ ~call[c].out.success
              => /\ ~call[c].setInit
                 /\ call[c].created = 0
                 /\ nInits = 1 => ~isInitialized

\* An initialize call has returned the error of a create that was rejected.
C15_CreateRejected ==
    \E c \in Calls :
        /\ Settled(c, "init") /\ call[c].attempts = 1 /\ call[c].created = 0
        /\ call[c].out.status = "error"

\* The notifications of kind k among notes.
NotesOf(notes, k) == SelectSeq(notes, LAMBDA n : n.k = k)

\* C16: when an admitted processText call is rejected to its caller, the error
\* callback has been invoked exactly once for the request, as the last of its
\* notifications, and the completion callback has not been invoked for it.
C16_RejectionNotified ==
    \A c \in Calls :
        Settled(c, "process") /\ call[c].notes # << >>
        /\ call[c].out.settled = "rejected"
        => /\ Len(NotesOf(call[c].notes, "error")) = 1
           /\ call[c].notes[Len(call[c].notes)].k = "error"
           /\ NotesOf(call[c].notes, "complete") = << >>

\* C17: when the host raises the cancellation error on the stream, on the
\* blocking prompt of the fallback or on the direct blocking prompt of an
\* admitted request, processText resolves with aborted:true and is not
\* rejected, and neither the error callback nor the completion callback is
\* invoked for the request.
C17_AbortResolves ==
    \A c \in Calls :
        call[c].kind = "process" /\ call[c].hostAbort # ""
        => /\ call[c].pc = "done"
           /\ call[c].out.settled = "resolved"
           /\ call[c].out.aborted /\ ~call[c].out.success
           /\ NotesOf(call[c].notes, "error") = << >>
           /\ NotesOf(call[c].notes, "complete") = << >>

\* The host has raised the cancellation error on the blocking prompt of a
\* fallback, after a chunk had been forwarded.
C17_AbortedInFallback ==
    \E c \in Calls :
        /\ Settled(c, "process") /\ call[c].hostAbort = "fallback"
        /\ NonEmpty(call[c].delivered) # << >>

\* C18: on a host on which every session fails prompts with a destroyed/quota
\* error, and whatever the interleaving with stopProcessing, a processText call
\* recreates the session at most once, re-runs the request at most once and
\* never calls itself beyond one level.
C18_OneRetry ==
    \A c \in Calls :
        call[c].kind = "process"
        => /\ call[c].recreated <= 1
           /\ call[c].reruns <= 1
           /\ call[c].depth <= 1

\* msgs is a sequence of complete turns: user, assistant, user, assistant, ...
CompleteTurns(msgs) ==
    /\ Len(msgs) % 2 = 0
    /\ \A i \in 1..Len(msgs) :
           msgs[i].role = IF i % 2 = 1 THEN "user" ELSE "assistant"

\* C19: when every message sent in the conversation displayed has been
\* followed by its completion, the message list of that conversation in the
\* persisted store is the full sequence of its turns, user and assistant
\* messages in order.
C19_StoredTurns ==
    LET idx == FindIndex(app.stored, app.currentConversationId)
    IN idx # 0 /\ CompleteTurns(app.currentConversation)
       => app.stored[idx].messages = app.currentConversation

\* C20: a step that takes the session from the core (destroy) leaves it with
\* no session, isInitialized and the busy flag false and the session destroyed
\* on the host; and while the core holds no session, a new session is created
\* only by an initialize or createSession call, never by a request that was
\* in flight when destroy was called.
C20_DestroyIsFinal ==
    [][/\ session # 0 /\ session' = 0
          => /\ ~isInitialized' /\ ~isProcessing'
             /\ hasDestroy => session \notin live'
       /\ \A c \in Calls :
              session = 0 /\ call'[c].created > call[c].created
              => call[c].kind \in {"init", "create"}]_vars

\* C21: while an admitted request is in flight and its own signal has not been
\* raised, the busy flag is true and the AbortController held is that
\* request's, so that stopProcessing would return true and raise its signal:
\* the cleanup of a request cancelled before never clears them.
C21_OwnFlagsKept ==
    \A c \in Calls :
        call[c].kind = "process" /\ InFlight(c) /\ ~call[c].signalled
        => isProcessing /\ abortController = c

\* C22: currentConversationId is null or the id of a conversation in the
\* stored conversation list, whatever the sequence of sendMessage,
\* newConversation, loadConversation and clearHistory.
C22_CurrentIsStored ==
    \/ app.currentConversationId = 0
    \/ FindIndex(app.stored, app.currentConversationId) # 0

\* A message element that shows the finished text of an assistant message:
\* the element of a response in flight shows the typing indicator or the cursor.
Finished(el) == el.role = "ai" /\ ~el.typing /\ ~el.cursor

\* C23: no callback of a request (handleStreaming, handleCompletion) changes a
\* message element that shows the finished text of an assistant message: the
\* text of a response in flight is rendered into its own element only.
C23_FinishedKept ==
    [][\A c \in Calls :
          Emitted(c) # << >>
          => \A i \in 1..Len(app.dom) :
                 Finished(app.dom[i])
                 => Len(app'.dom) >= i /\ app'.dom[i] = app.dom[i]]_vars

\* A settled fetch event of the worker for a GET request of the given kind.
Handled(navigation) ==
    /\ sw.ev.pc = "done"
    /\ sw.ev.req.method = "GET"
    /\ (sw.ev.req.mode = "navigate") = navigation

\* C24: a navigation is answered network-first: the response of the network
\* when the fetch resolves, the cached index.html when it rejects; and the
\* index.html of the current bucket is only ever replaced by a successful
\* response, so that a navigation answered from the cache never gets an error
\* response.
C24_NavigationNetworkFirst ==
    /\ Handled(TRUE) =>
          /\ sw.ev.fetches = 1
          /\ sw.ev.answer.by \in {"network", "cache", "error"}
          /\ sw.ev.answer.by = "network" => sw.ev.puts = 1
          /\ sw.ev.answer.by = "cache" =>
                sw.ev.puts = 0 /\ sw.ev.answer.resp = sw.ev.matched /\ sw.ev.answer.resp.ok
    /\ CACHE_NAME \in DOMAIN sw.buckets /\ "./index.html" \in DOMAIN sw.buckets[CACHE_NAME]
          => sw.buckets[CACHE_NAME]["./index.html"].ok

\* C25: a GET request that is not a navigation is answered cache-first: when
\* caches.match finds a response, that response is the answer, fetch is not
\* called and no cache write is started; when it finds none, fetch is called
\* once and a cache write is started exactly when the fetch resolves.  A
\* request of another method is left to the browser: the worker gives no
\* answer, calls no fetch and starts no cache write.
C25_CacheFirst ==
    /\ Handled(FALSE) =>
          /\ sw.ev.matched # NoResponse =>
                /\ sw.ev.answer = [by |-> "cache", resp |-> sw.ev.matched]
                /\ sw.ev.fetches = 0
                /\ sw.ev.puts = 0
          /\ sw.ev.matched = NoResponse =>
                /\ sw.ev.fetches = 1
                /\ sw.ev.answer.by \in {"network", "error"}
                /\ sw.ev.answer.by = "network" => sw.ev.puts = 1
                /\ sw.ev.answer.by = "error" => sw.ev.puts = 0
    /\ sw.ev.pc = "done" /\ sw.ev.req.method # "GET" =>
          /\ sw.ev.answer = [by |-> "browser", resp |-> NoResponse]
          /\ sw.ev.fetches = 0
          /\ sw.ev.puts = 0
    /\ sw.ev.pc # "done" => sw.ev.puts = 0
    /\ \A p \in sw.puts : p.resp \in NetResponses

\* A request was answered from the cache with the response an earlier,
\* uncached request for the same URL had brought from the network.
C25_ServedWhatWasFetched ==
    /\ Handled(FALSE)
    /\ sw.ev.req.url = OtherUrl
    /\ sw.ev.answer.by = "cache"
    /\ sw.ev.answer.resp.from = "network"

\* C26: once the activate handler has completed, whatever buckets the origin
\* held beforehand, every bucket of another name is gone and the current
\* bucket is there as the installation left it.
C26_ActivateCleans ==
    sw.phase = "activated" /\ sw.nEvents = 0 =>
        /\ DOMAIN sw.buckets = {CACHE_NAME}
        /\ sw.buckets[CACHE_NAME] = sw.installed
        /\ \A u \in CoreUrls : u \in DOMAIN sw.installed /\ sw.installed[u] = InstalledResponse

\* The handler has completed in an origin that held both old buckets and a
\* bucket of the current name.
C26_ActivatedOverOldBuckets ==
    /\ sw.phase = "activated"
    /\ sw.nEvents = 0
    /\ sw.keys = BucketNames
    /\ OtherUrl \in DOMAIN sw.installed

\* C10: while the conversation displayed is not the one a request in flight
\* was sent for, no callback of that request changes the messages displayed,
\* and its completion appends its result as an assistant message to the
\* request's conversation in the conversation list and saves the list.
C10_SwitchedConversation ==
    [][\A c \in Calls :
          call[c].kind = "process" /\ InFlight(c) /\ Emitted(c) # << >>
          /\ app.currentConversationId # call[c].meta
          => /\ app'.dom = app.dom
             /\ \A i \in 1..Len(Emitted(c)) :
                   LET idx == FindIndex(app.conversations, call[c].meta)
                   IN Emitted(c)[i].k = "complete" /\ idx # 0
                      => /\ app'.conversations =
                                [app.conversations EXCEPT ![idx].messages =
                                    Append(@, Msg("assistant", Emitted(c)[i].t))]
                         /\ app'.stored = app'.conversations]_vars

\* A request has completed, after a non-empty chunk, while another conversation
\* was displayed, and its conversation ends with its result.
C10_CompletedWhileSwitched ==
    \E c \in Calls :
        /\ Settled(c, "process") /\ call[c].out.success
        /\ NonEmpty(call[c].delivered) # << >>
        /\ app.currentConversationId # call[c].meta
        /\ LET idx == FindIndex(app.conversations, call[c].meta)
           IN /\ idx # 0
              /\ app.conversations[idx].messages[Len(app.conversations[idx].messages)]
                     = Msg("assistant", call[c].out.result)
====
